---- MODULE Spec2Model ----
(***************************************************************************)
(* Model of Monitor/resMon.py: the three monitors (ResMonitor,             *)
(* NetworkInterfaceMonitor, ProcessSetMonitor) and the main() loop that    *)
(* drives them through sched.scheduler.                                    *)
(***************************************************************************)
EXTENDS Integers, Sequences, FiniteSets, TLC

\* ---------------------------------------------------------------- bounds
MaxTick == 2        \* ticks of the main loop the model follows
MaxClock == 6       \* the wall clock stops advancing on its own here
NCores == 2         \* psutil.cpu_count() of the modelled host
MaxPsPolls == 1     \* polls of a directly constructed ProcessSetMonitor
Epoch == 1000       \* time.time() when the program starts

\* ------------------------------------------------------- the stat source
\* psutil.disk_io_counters(): the cumulative counters the source can show.
DiskSnaps ==
  { [read_count |-> 8, write_count |-> 3, read_bytes |-> 524288,
     write_bytes |-> 0, read_time |-> 90, write_time |-> 0],
    [read_count |-> 10, write_count |-> 5, read_bytes |-> 1048576,
     write_bytes |-> 0, read_time |-> 100, write_time |-> 0],
    [read_count |-> 12, write_count |-> 5, read_bytes |-> 3145728,
     write_bytes |-> 0, read_time |-> 150, write_time |-> 0],
    [read_count |-> 15, write_count |-> 9, read_bytes |-> 3670016,
     write_bytes |-> 2621440, read_time |-> 151, write_time |-> 70] }

NoDisk == [read_count |-> 0, write_count |-> 0, read_bytes |-> 0,
           write_bytes |-> 0, read_time |-> 0, write_time |-> 0]

\* psutil.net_if_stats(): the interfaces that exist on the host.
IfStats == {"eth0", "eth1"}

\* psutil.net_io_counters(pernic=True)[nic]: the values one interface shows.
NetSnaps ==
  { [bytes_sent |-> 1048576, bytes_recv |-> 2097152, packets_sent |-> 10,
     packets_recv |-> 20, errin |-> 0, errout |-> 0, dropin |-> 0, dropout |-> 0],
    [bytes_sent |-> 2097152, bytes_recv |-> 3145728, packets_sent |-> 15,
     packets_recv |-> 25, errin |-> 0, errout |-> 0, dropin |-> 0, dropout |-> 0],
    [bytes_sent |-> 5767168, bytes_recv |-> 3145729, packets_sent |-> 40,
     packets_recv |-> 26, errin |-> 1, errout |-> 2, dropin |-> 3, dropout |-> 4] }

\* ------------------------------------------------------------- helpers
Range(s) == { s[k] : k \in 1..Len(s) }

\* x >> 20 on a Python int: floor division by 2^20, also for negative x.
Shr20(x) == x \div 1048576

\* NIC names the command line may ask for; "wlan9" does not exist.
NicNames == IfStats \cup {"wlan9"}

\* the file objects of the run, by the monitor attribute that holds them
Handles == {"stdout", "rm", "pm"} \cup NicNames

VARIABLES
  args,        \* parsed command line: outfile, ps_outfile, nic_given, nic, ps_pids,
               \* delay
  pc,          \* position of main()
  caller,      \* who called the poll in progress: "init" (a constructor) or "sched"
  clock,       \* time.time()
  disk,        \* what psutil.disk_io_counters() shows now
  net,         \* what psutil.net_io_counters(pernic=True) shows now
  procs,       \* the process table psutil.process_iter() walks
  files,       \* file objects: opened, closes, lines
  bound,       \* local names of main() that are bound
  rm,          \* the ResMonitor object
  nm,          \* the NetworkInterfaceMonitor object
  pm,          \* the ProcessSetMonitor object
  loc,         \* locals of the poll_stat in progress
  i,           \* tick counter of main()
  starttime,   \* starttime of main()
  queue,       \* scheduler queue: events (time, priority, action)
  exc,         \* exception in flight or uncaught at exit
  notice,      \* number of "Monitoring interrupted." lines printed
  closed,      \* close() calls per monitor
  disk_reads,  \* history: every disk snapshot handed to the ResMonitor
  net_reads,   \* history: per NIC, every snapshot of it handed to the monitor
  ps_seen,     \* history: number of ProcessSetMonitor polls begun, and the processes
               \* the latest one found listed and could read
  log          \* history: start and end of every scheduled poll

vars == << args, pc, caller, clock, disk, net, procs, files, bound, rm, nm, pm,
           loc, i, starttime, queue, exc, notice, closed, disk_reads, net_reads,
           ps_seen, log >>


\* ------------------------------------------------------ the process table
Pids == {1, 2, 3}

\* Process names, one character per element, as proc.info['name'] holds them
\* (the name of every listed process can be read).
ProcName(p) ==
  CASE p = 1 -> << "a", "B" >>
    [] p = 2 -> << "b" >>
    [] OTHER -> << "A", "a" >>

\* What a successful read of process p returns (io_counters, memory_info,
\* memory_percent, cpu_percent).
ProcMetrics(p) ==
  CASE p = 1 -> [read_count |-> 3, write_count |-> 1, read_bytes |-> 2097157,
                 write_bytes |-> 1048575, rss |-> 3145728, mem_percent |-> 2,
                 cpu_percent |-> 10]
    [] p = 2 -> [read_count |-> 7, write_count |-> 4, read_bytes |-> 2097147,
                 write_bytes |-> 1048575, rss |-> 5242881, mem_percent |-> 3,
                 cpu_percent |-> 20]
    [] OTHER -> [read_count |-> 20, write_count |-> 30, read_bytes |-> 9437184,
                 write_bytes |-> 4194304, rss |-> 7340032, mem_percent |-> 5,
                 cpu_percent |-> 40]

\* One entry of the process table: "absent" (not listed by process_iter), "ok"
\* (listed and readable), "bad" (listed, but it has exited or denies access by
\* the time _stat_proc reads it).
ProcStates == {"absent", "ok", "bad"}

\* str.lower() on one character
LowerChar(c) == CASE c = "A" -> "a" [] c = "B" -> "b" [] OTHER -> c

\* str.lower()
Lower(s) == [k \in 1..Len(s) |-> LowerChar(s[k])]

\* k in name: k is a contiguous substring of name
Contains(name, k) ==
  \E off \in 0..(Len(name) - Len(k)) :
    \A j \in 1..Len(k) : name[off + j] = k[j]

\* the host-wide readings a ResMonitor poll formats; they do not change here
HostStat ==
  [cpu_percent |-> 25,
   percpu |-> [k \in 1..NCores |-> 20 + k],
   mem |-> [percent |-> 50, total |-> 2097152000, used |-> 1048576000,
            available |-> 1048575999, free |-> 1048575],
   swap |-> [percent |-> 0, total |-> 1073741824, used |-> 0, free |-> 1073741824]]

\* -------------------------------------------------------------- objects
NoFile == [opened |-> FALSE, closes |-> 0, lines |-> << >>]

\* open(name, 'w'): a fresh, open, empty file
OpenFile == [opened |-> TRUE, closes |-> 0, lines |-> << >>]

\* f.write(line)
WriteLine(fs, h, line) ==
  [fs EXCEPT ![h] = [@ EXCEPT !.lines = Append(@, line)]]

\* f.close()
CloseFile(fs, h) == [fs EXCEPT ![h] = [@ EXCEPT !.closes = @ + 1]]

NoLoc == [ts |-> 0, uptime |-> 0, disk_stat |-> NoDisk, net_stat |-> << >>,
          k |-> 0, curr_stat |-> << >>]

NoRm == [ncores |-> 0, outfile |-> "stdout", prev_disk_stat |-> NoDisk,
         starttime |-> 0]

NoNm == [nic_files |-> << >>, prev_stat |-> << >>, starttime |-> 0]

NoPm == [pids |-> {}, keywords |-> << >>, outfile |-> "stdout", starttime |-> 0]


\* a header or data line: the comma-separated fields, in order
Header(names) == [kind |-> "header", fields |-> names]
Row(values) == [kind |-> "row", fields |-> values]

\* the data rows of a file, in the order written
DataRows(f) == SelectSeq(f.lines, LAMBDA l : l.kind = "row")

\* the value a row holds under the column called name in header h
Col(h, row, name) == row.fields[CHOOSE k \in 1..Len(h.fields) : h.fields[k] = name]

\* a delta computed from the MB value of each snapshot
MBDeltaPerSnapshot(curr, prev) == Shr20(curr) - Shr20(prev)

\* (curr - prev) >> 20: the byte delta, then the shift (lines 60-61, 110-111)
MBDelta(curr, prev) == Shr20(curr - prev)

\* ---------------------------------------------------------- ResMonitor
CpuName(k) ==
  CASE k = 0 -> "%CPU0" [] k = 1 -> "%CPU1" [] k = 2 -> "%CPU2"
    [] k = 3 -> "%CPU3" [] OTHER -> "%CPUn"

\* ResMonitor._write_header
RmHeader(ncores) ==
  Header(<< "Timestamp", "Uptime", "NCPU", "%CPU" >>
         \o [k \in 1..ncores |-> CpuName(k - 1)]
         \o << "%MEM", "mem.total.MB", "mem.used.MB", "mem.avail.MB", "mem.free.MB",
               "%SWAP", "swap.total.MB", "swap.used.MB", "swap.free.MB",
               "io.read", "io.write", "io.read.MB", "io.write.MB",
               "io.read.ms", "io.write.ms" >>)

\* the line ResMonitor.poll_stat formats from its readings
RmLine(self, ts, uptime, host, disk_stat) ==
  Row(<< ts, uptime, self.ncores, host.cpu_percent * self.ncores >>
      \o host.percpu
      \o << host.mem.percent, Shr20(host.mem.total), Shr20(host.mem.used),
            Shr20(host.mem.available), Shr20(host.mem.free),
            host.swap.percent, Shr20(host.swap.total), Shr20(host.swap.used),
            Shr20(host.swap.free),
            disk_stat.read_count - self.prev_disk_stat.read_count,
            disk_stat.write_count - self.prev_disk_stat.write_count,
            MBDelta(disk_stat.read_bytes, self.prev_disk_stat.read_bytes),
            MBDelta(disk_stat.write_bytes, self.prev_disk_stat.write_bytes),
            disk_stat.read_time - self.prev_disk_stat.read_time,
            disk_stat.write_time - self.prev_disk_stat.write_time >>)

\* where a poll_stat returns to: the constructor that called it, or scheduler.run
Return(m) ==
  /\ pc' = CASE caller = "sched" -> "run"
            [] caller = "direct" -> "h_idle"
            [] OTHER -> IF m = "nm" THEN "nm_bind" ELSE "pm_bind"
  /\ loc' = NoLoc
  /\ log' = IF caller = "sched"
            THEN Append(log, [ev |-> "end", mon |-> m, tick |-> i, at |-> clock])
            ELSE log

\* ResMonitor.__init__ (main line 232, before the name rm is assigned)
RmInit ==
  /\ pc = "rm_new"
  /\ LET out == IF args.outfile = "None" THEN "stdout" ELSE "rm"
         fs == IF out = "rm" THEN [files EXCEPT !["rm"] = OpenFile] ELSE files
     IN /\ rm' = [ncores |-> NCores, outfile |-> out, prev_disk_stat |-> disk,
                  starttime |-> clock]
        /\ files' = WriteLine(fs, out, RmHeader(NCores))
  /\ disk_reads' = << disk >>
  /\ pc' = "rm_bind"
  /\ UNCHANGED << args, caller, clock, disk, net, procs, bound, nm, pm, loc, i,
                  starttime, queue, exc, notice, closed, net_reads, ps_seen, log >>

\* rm = ResMonitor(...): the assignment of main line 232
RmBind ==
  /\ pc = "rm_bind"
  /\ bound' = bound \cup {"rm"}
  /\ pc' = "en_nic"
  /\ UNCHANGED << args, caller, clock, disk, net, procs, files, rm, nm, pm, loc, i,
                  starttime, queue, exc, notice, closed, disk_reads, net_reads,
                  ps_seen, log >>

\* ResMonitor.poll_stat, lines 44-50: take the readings
RmPollRead ==
  /\ pc = "rm_read"
  /\ loc' = [NoLoc EXCEPT !.ts = clock, !.uptime = clock - rm.starttime,
                          !.disk_stat = disk]
  /\ disk_reads' = Append(disk_reads, disk)
  /\ pc' = "rm_write"
  /\ UNCHANGED << args, caller, clock, disk, net, procs, files, bound, rm, nm, pm, i,
                  starttime, queue, exc, notice, closed, net_reads, ps_seen, log >>

\* a ResMonitor that never replaces the snapshot taken at construction
RmKeepFirst(self, disk_stat) == self

\* the previous snapshot a successful ResMonitor poll retains (line 69)
RmKeep(self, disk_stat) == [self EXCEPT !.prev_disk_stat = disk_stat]

\* ResMonitor.poll_stat, lines 52-69: format, write, keep the snapshot
RmPollWrite ==
  /\ pc = "rm_write"
  /\ files' = WriteLine(files, rm.outfile,
                        RmLine(rm, loc.ts, loc.uptime, HostStat, loc.disk_stat))
  /\ rm' = RmKeep(rm, loc.disk_stat)
  /\ Return("rm")
  /\ UNCHANGED << args, caller, clock, disk, net, procs, bound, nm, pm, i,
                  starttime, queue, exc, notice, closed, disk_reads, net_reads,
                  ps_seen >>

\* ResMonitor.close
RmClose(fs) == IF rm.outfile # "stdout" THEN CloseFile(fs, rm.outfile) ELSE fs


\* ------------------------------------------------ NetworkInterfaceMonitor
\* the header create_new_logfile writes
NmHeader ==
  Header(<< "Timestamp", "Uptime", "NIC", "sent.MB", "recv.MB", "sent.pkts",
            "recv.pkts", "err.in", "err.out", "drop.in", "drop.out" >>)

\* the line NetworkInterfaceMonitor.poll_stat formats for one NIC
NmLine(nic, ts, uptime, curr_stat, prevstat) ==
  Row(<< ts, uptime, nic,
         MBDelta(curr_stat.bytes_sent, prevstat.bytes_sent),
         MBDelta(curr_stat.bytes_recv, prevstat.bytes_recv),
         curr_stat.packets_sent - prevstat.packets_sent,
         curr_stat.packets_recv - prevstat.packets_recv,
         curr_stat.errin - prevstat.errin,
         curr_stat.errout - prevstat.errout,
         curr_stat.dropin - prevstat.dropin,
         curr_stat.dropout - prevstat.dropout >>)

\* no validation: every requested name is monitored
ValidNicsAll(nics, existing) == nics

\* the requested names net_if_stats() knows, in the order requested
ValidNics(nics, existing) == SelectSeq(nics, LAMBDA n : n \in existing)

\* NetworkInterfaceMonitor.__init__, lines 75-79: open one file per valid NIC,
\* fail when there is none
NmInit ==
  /\ pc = "nm_new"
  /\ args.nic_given
  /\ LET names == ValidNics(args.nic, IfStats)
     IN /\ nm' = [nic_files |-> names, prev_stat |-> << >>, starttime |-> 0]
        /\ files' = [h \in Handles |->
                       IF h \in Range(names)
                       THEN [OpenFile EXCEPT !.lines = << NmHeader >>]
                       ELSE files[h]]
        /\ IF names = << >>
           THEN /\ exc' = "ValueError"
                /\ pc' = "fin_rm"
                /\ loc' = loc
           ELSE /\ exc' = exc
                /\ pc' = "nm_prev"
                /\ loc' = [NoLoc EXCEPT !.k = 1]
  /\ UNCHANGED << args, caller, clock, disk, net, procs, bound, rm, pm, i, starttime,
                  queue, notice, closed, disk_reads, net_reads, ps_seen, log >>

\* line 80, one NIC at a time: prev_stat[nic] = net_io_counters(pernic=True)[nic]
NmPrev ==
  /\ pc = "nm_prev"
  /\ loc.k <= Len(nm.nic_files)
  /\ LET nic == nm.nic_files[loc.k]
     IN /\ nm' = [nm EXCEPT !.prev_stat =
                    [n \in (DOMAIN nm.prev_stat) \cup {nic} |->
                       IF n = nic THEN net[nic] ELSE nm.prev_stat[n]]]
        /\ net_reads' = [net_reads EXCEPT ![nic] = Append(@, net[nic])]
  /\ loc' = [loc EXCEPT !.k = @ + 1]
  /\ UNCHANGED << args, pc, caller, clock, disk, net, procs, files, bound, rm, pm, i,
                  starttime, queue, exc, notice, closed, disk_reads, ps_seen, log >>

\* lines 81-83: record the start time and call the initial poll_stat
NmStart ==
  /\ pc = "nm_prev"
  /\ loc.k > Len(nm.nic_files)
  /\ nm' = [nm EXCEPT !.starttime = clock]
  /\ loc' = NoLoc
  /\ caller' = "init"
  /\ pc' = "nm_read"
  /\ UNCHANGED << args, clock, disk, net, procs, files, bound, rm, pm, i, starttime,
                  queue, exc, notice, closed, disk_reads, net_reads, ps_seen, log >>

\* nm = None when --nic was not given (line 234)
NmSkip ==
  /\ pc = "nm_new"
  /\ ~args.nic_given
  /\ bound' = bound \cup {"nm"}
  /\ pc' = "en_ps"
  /\ UNCHANGED << args, caller, clock, disk, net, procs, files, rm, nm, pm, loc, i,
                  starttime, queue, exc, notice, closed, disk_reads, net_reads,
                  ps_seen, log >>

\* nm = NetworkInterfaceMonitor(...): the assignment of line 234
NmBind ==
  /\ pc = "nm_bind"
  /\ bound' = bound \cup {"nm"}
  /\ pc' = "en_ps"
  /\ UNCHANGED << args, caller, clock, disk, net, procs, files, rm, nm, pm, loc, i,
                  starttime, queue, exc, notice, closed, disk_reads, net_reads,
                  ps_seen, log >>

\* NetworkInterfaceMonitor.poll_stat, lines 102-104: one reading for all NICs
NmPollRead ==
  /\ pc = "nm_read"
  /\ loc' = [NoLoc EXCEPT !.ts = clock, !.uptime = clock - nm.starttime,
                          !.net_stat = net, !.k = 1]
  /\ net_reads' = [n \in NicNames |->
                     IF n \in Range(nm.nic_files) \cap DOMAIN net
                     THEN Append(net_reads[n], net[n]) ELSE net_reads[n]]
  /\ pc' = "nm_write"
  /\ UNCHANGED << args, caller, clock, disk, net, procs, files, bound, rm, nm, pm, i,
                  starttime, queue, exc, notice, closed, disk_reads, ps_seen, log >>

\* every row computed against the snapshot of the first monitored NIC
NmPrevOfFirst(self, nic) == self.prev_stat[self.nic_files[1]]

\* the snapshot one NIC's row is computed against (line 108)
NmPrevOf(self, nic) == self.prev_stat[nic]

\* a loop body that retains the snapshot of each NIC as soon as its row is written
NmLoopKeepEach(self, nic, curr_stat) ==
  [self EXCEPT !.prev_stat = [n \in DOMAIN self.prev_stat |->
                                IF n = nic THEN curr_stat ELSE self.prev_stat[n]]]

\* what one pass of the loop does to the monitor: nothing (lines 107-119 only
\* read self.prev_stat)
NmLoopKeep(self, nic, curr_stat) == self

\* lines 106-119, one pass of the loop: the row of the k-th NIC into its file
NmPollWrite ==
  /\ pc = "nm_write"
  /\ loc.k <= Len(nm.nic_files)
  /\ nm.nic_files[loc.k] \in DOMAIN loc.net_stat
  /\ LET nic == nm.nic_files[loc.k]
     IN /\ files' = WriteLine(files, nic,
                              NmLine(nic, loc.ts, loc.uptime, loc.net_stat[nic],
                                     NmPrevOf(nm, nic)))
        /\ nm' = NmLoopKeep(nm, nic, loc.net_stat[nic])
  /\ loc' = [loc EXCEPT !.k = @ + 1]
  /\ UNCHANGED << args, pc, caller, clock, disk, net, procs, bound, rm, pm, i,
                  starttime, queue, exc, notice, closed, disk_reads, net_reads,
                  ps_seen, log >>

\* the mapping a finished NetworkInterfaceMonitor poll retains (line 120)
NmKeep(self, net_stat) == [self EXCEPT !.prev_stat = net_stat]

\* line 120, after the loop: prev_stat = net_stat
NmPollCommit ==
  /\ pc = "nm_write"
  /\ loc.k > Len(nm.nic_files)
  /\ nm' = NmKeep(nm, loc.net_stat)
  /\ Return("nm")
  /\ UNCHANGED << args, caller, clock, disk, net, procs, files, bound, rm, pm, i,
                  starttime, queue, exc, notice, closed, disk_reads, net_reads,
                  ps_seen >>

\* NetworkInterfaceMonitor.close
NmClose(fs) ==
  [h \in Handles |->
     IF h \in Range(nm.nic_files) THEN [fs[h] EXCEPT !.closes = @ + 1] ELSE fs[h]]


\* ------------------------------------------------------ ProcessSetMonitor
\* sorted(BASE_STAT.keys())
SortedKeys == << "%CPU", "%MEM", "io.read", "io.read.MB", "io.write",
                 "io.write.MB", "mem.rss.MB" >>

\* defaultdict(int): every key reads 0 until something is added
EmptyStat == [key \in Range(SortedKeys) |-> 0]

\* the header ProcessSetMonitor.__init__ writes (line 141)
PmHeader == Header(<< "Timestamp", "Uptime" >> \o SortedKeys)

\* the dictionary _stat_proc returns for a process it could read (lines 169-177)
StatDict(m) ==
  [key \in Range(SortedKeys) |->
     CASE key = "io.read" -> m.read_count
       [] key = "io.write" -> m.write_count
       [] key = "io.read.MB" -> Shr20(m.read_bytes)
       [] key = "io.write.MB" -> Shr20(m.write_bytes)
       [] key = "mem.rss.MB" -> Shr20(m.rss)
       [] key = "%MEM" -> m.mem_percent
       [] OTHER -> m.cpu_percent]

\* the exceptions the two handlers of the monitor catch (lines 166 and 193)
Caught(err) == err \in {"NoSuchProcess", "AccessDenied"}

\* a read outcome: at = the read of _stat_proc that raises (0: none), err = what
NoFail == [at |-> 0, err |-> "none"]

\* a _stat_proc that keeps what it read before the failing read
StatProcPartial(p, visited, fail) ==
  IF p \in visited
  THEN [visited |-> visited, ok |-> FALSE, stat |-> EmptyStat, raised |-> "none"]
  ELSE [visited |-> visited \cup {p}, ok |-> TRUE, raised |-> "none",
        stat |-> [key \in Range(SortedKeys) |->
                    IF \/ fail.at = 0
                       \/ fail.at > 1 /\ key \in {"io.read", "io.write", "io.read.MB",
                                                   "io.write.MB"}
                       \/ fail.at > 2 /\ key = "mem.rss.MB"
                       \/ fail.at > 3 /\ key = "%MEM"
                    THEN StatDict(ProcMetrics(p))[key] ELSE 0]]

\* ProcessSetMonitor._stat_proc: the visited set afterwards, the dictionary
\* returned (ok = FALSE for None) and the exception that escapes it, if any.
StatProc(p, visited, fail) ==
  IF p \in visited
  THEN [visited |-> visited, ok |-> FALSE, stat |-> EmptyStat, raised |-> "none"]
  ELSE IF fail.at # 0
       THEN [visited |-> visited \cup {p}, ok |-> FALSE, stat |-> EmptyStat,
             raised |-> IF Caught(fail.err) THEN "none" ELSE fail.err]
       ELSE [visited |-> visited \cup {p}, ok |-> TRUE,
             stat |-> StatDict(ProcMetrics(p)), raised |-> "none"]

\* line 188: the pid is one of self.pids or a keyword occurs in the lowered name
Matches(self, p) ==
  \/ p \in self.pids
  \/ \E w \in 1..Len(self.keywords) : Contains(Lower(ProcName(p)), self.keywords[w])

\* a loop body that adds a process once for every rule it satisfies
PsVisitPerRule(self, p, acc, fail) ==
  LET rules == (IF p \in self.pids THEN 1 ELSE 0)
               + (IF \E w \in 1..Len(self.keywords) :
                       Contains(Lower(ProcName(p)), self.keywords[w])
                  THEN 1 ELSE 0)
      r == StatProc(p, {}, fail)
  IN [visited |-> acc.visited \cup (IF rules > 0 THEN {p} ELSE {}),
      curr_stat |-> IF r.ok
                    THEN [key \in Range(SortedKeys) |->
                            acc.curr_stat[key] + rules * r.stat[key]]
                    ELSE acc.curr_stat,
      raised |-> "none"]

\* lines 186-194, the loop body for one listed process: acc is (visited,
\* curr_stat, raised)
PsVisit(self, p, acc, fail) ==
  IF Matches(self, p)
  THEN LET r == StatProc(p, acc.visited, fail)
       IN [visited |-> r.visited,
           curr_stat |-> IF r.ok
                         THEN [key \in Range(SortedKeys) |->
                                 acc.curr_stat[key] + r.stat[key]]
                         ELSE acc.curr_stat,
           raised |-> IF Caught(r.raised) THEN "none" ELSE r.raised]
  ELSE acc

\* process_iter(): the listed pids in increasing order
RECURSIVE PidSeq(_)
PidSeq(S) ==
  IF S = {} THEN << >>
  ELSE LET m == CHOOSE x \in S : \A y \in S : x <= y
       IN << m >> \o PidSeq(S \ {m})

\* lines 180-194: the whole loop over the listed processes
RECURSIVE PsLoop(_, _, _, _)
PsLoop(self, todo, acc, fails) ==
  IF todo = << >> \/ acc.raised # "none" THEN acc
  ELSE PsLoop(self, Tail(todo), PsVisit(self, Head(todo), acc, fails[Head(todo)]),
              fails)

\* a line that holds only the metrics some process has added to
PmLineAddedOnly(ts, uptime, curr_stat) ==
  Row(<< ts, uptime >>
      \o SelectSeq([k \in 1..Len(SortedKeys) |-> curr_stat[SortedKeys[k]]],
                   LAMBDA v : curr_stat # EmptyStat))

\* the line ProcessSetMonitor.poll_stat formats (line 196)
PmLine(ts, uptime, curr_stat) ==
  Row(<< ts, uptime >> \o [k \in 1..Len(SortedKeys) |-> curr_stat[SortedKeys[k]]])

\* what reading a listed process can do, given its entry of the process table:
\* a process that has exited or denies access raises at any of the four reads
FailModes(st) ==
  IF st = "bad"
  THEN [at : 1..4, err : {"NoSuchProcess", "AccessDenied"}]
  ELSE {NoFail}

\* a constructor that returns after the header, without an initial poll
PmConstructNoPoll ==
  /\ LET out == IF args.ps_outfile = "" THEN "stdout" ELSE "pm"
         fs == IF out = "pm" THEN [files EXCEPT !["pm"] = OpenFile] ELSE files
     IN /\ pm' = [pids |-> args.ps_pids, keywords |-> args.keywords, outfile |-> out,
                  starttime |-> clock]
        /\ files' = WriteLine(fs, out, PmHeader)
  /\ pc' = "pm_bind"

\* ProcessSetMonitor.__init__, lines 136-143, up to the call of poll_stat
PmConstruct ==
  /\ LET out == IF args.ps_outfile = "" THEN "stdout" ELSE "pm"
         fs == IF out = "pm" THEN [files EXCEPT !["pm"] = OpenFile] ELSE files
     IN /\ pm' = [pids |-> args.ps_pids, keywords |-> args.keywords, outfile |-> out,
                  starttime |-> clock]
        /\ files' = WriteLine(fs, out, PmHeader)
  /\ pc' = "pm_poll"

\* pm = ProcessSetMonitor([], args.ps_pids, ...) of main (line 236), entered
PmInit ==
  /\ pc = "pm_new"
  /\ args.ps_pids # {}
  /\ PmConstruct
  /\ caller' = "init"
  /\ UNCHANGED << args, clock, disk, net, procs, bound, rm, nm, loc, i, starttime,
                  queue, exc, notice, closed, disk_reads, net_reads, ps_seen, log >>

\* pm = None when no pid was given (line 236)
PmSkip ==
  /\ pc = "pm_new"
  /\ args.ps_pids = {}
  /\ bound' = bound \cup {"pm"}
  /\ pc' = "loop_init"
  /\ UNCHANGED << args, caller, clock, disk, net, procs, files, rm, nm, pm, loc, i,
                  starttime, queue, exc, notice, closed, disk_reads, net_reads,
                  ps_seen, log >>

\* pm = ProcessSetMonitor(...): the assignment of line 236
PmBind ==
  /\ pc = "pm_bind"
  /\ bound' = bound \cup {"pm"}
  /\ pc' = "loop_init"
  /\ UNCHANGED << args, caller, clock, disk, net, procs, files, rm, nm, pm, loc, i,
                  starttime, queue, exc, notice, closed, disk_reads, net_reads,
                  ps_seen, log >>

\* an aggregate that lives on from poll to poll: the values of the last row
CarriedStat ==
  LET rows == DataRows(files[pm.outfile])
  IN IF rows = << >> THEN EmptyStat
     ELSE [key \in Range(SortedKeys) |->
             Col(files[pm.outfile].lines[1], rows[Len(rows)], key)]

\* curr_stat = defaultdict(int) at the start of every poll (line 181)
FreshStat == EmptyStat

\* ProcessSetMonitor.poll_stat, lines 180-194: walk the process table
PmPollBegin ==
  /\ pc = "pm_poll"
  /\ LET listed == { p \in Pids : procs[p] # "absent" }
     IN \E f1 \in FailModes(procs[1]), f2 \in FailModes(procs[2]),
           f3 \in FailModes(procs[3]) :
          LET fails == [p \in Pids |-> CASE p = 1 -> f1 [] p = 2 -> f2 [] OTHER -> f3]
          IN
          LET res == PsLoop(pm, PidSeq(listed),
                            [visited |-> {}, curr_stat |-> FreshStat,
                             raised |-> "none"], fails)
          IN /\ ps_seen' = [n |-> ps_seen.n + 1, listed |-> listed,
                            ok |-> { p \in listed : fails[p].at = 0 }]
             /\ IF res.raised = "none"
                THEN /\ loc' = [NoLoc EXCEPT
                                  !.ts = clock, !.uptime = clock - pm.starttime,
                                  !.curr_stat = res.curr_stat]
                     /\ pc' = "pm_write"
                     /\ exc' = exc
                ELSE /\ loc' = NoLoc
                     /\ pc' = "fin_rm"
                     /\ exc' = res.raised
  /\ UNCHANGED << args, caller, clock, disk, net, procs, files, bound, rm, nm, pm, i,
                  starttime, queue, notice, closed, disk_reads, net_reads, log >>

\* ProcessSetMonitor.poll_stat, lines 196-199: write the row
PmPollWrite ==
  /\ pc = "pm_write"
  /\ files' = WriteLine(files, pm.outfile, PmLine(loc.ts, loc.uptime, loc.curr_stat))
  /\ Return("pm")
  /\ UNCHANGED << args, caller, clock, disk, net, procs, bound, rm, nm, pm, i,
                  starttime, queue, exc, notice, closed, disk_reads, net_reads,
                  ps_seen >>

\* ProcessSetMonitor.close
PmClose(fs) == IF pm.outfile # "stdout" THEN CloseFile(fs, pm.outfile) ELSE fs


\* ------------------------------------------------------------------ main
\* enable_nic_mon = args.nic is not None (line 233)
EnableNic ==
  /\ pc = "en_nic"
  /\ bound' = bound \cup {"enable_nic_mon"}
  /\ pc' = "nm_new"
  /\ UNCHANGED << args, caller, clock, disk, net, procs, files, rm, nm, pm, loc, i,
                  starttime, queue, exc, notice, closed, disk_reads, net_reads,
                  ps_seen, log >>

\* enable_ps_mon = len(args.ps_pids) > 0 (line 235)
EnablePs ==
  /\ pc = "en_ps"
  /\ bound' = bound \cup {"enable_ps_mon"}
  /\ pc' = "pm_new"
  /\ UNCHANGED << args, caller, clock, disk, net, procs, files, rm, nm, pm, loc, i,
                  starttime, queue, exc, notice, closed, disk_reads, net_reads,
                  ps_seen, log >>

\* i = 1; starttime = time.time() (lines 238-239)
LoopInit ==
  /\ pc = "loop_init"
  /\ i' = 1
  /\ starttime' = clock
  /\ pc' = "sched"
  /\ UNCHANGED << args, caller, clock, disk, net, procs, files, bound, rm, nm, pm,
                  loc, queue, exc, notice, closed, disk_reads, net_reads, ps_seen,
                  log >>

\* fire times that follow the clock: one delay after the moment of entering
FireTimeDrift(start, tick, delay) == clock + delay

\* the absolute time the events of one pass of the loop are entered at
FireTime(start, tick, delay) == start + tick * delay

\* priorities in the order the events are entered
PriorityAsEntered(m) == CASE m = "rm" -> 0 [] m = "nm" -> 1 [] OTHER -> 2

\* the priority each action is entered with (lines 241, 243, 245)
Priority(m) == CASE m = "rm" -> 2 [] m = "nm" -> 1 [] OTHER -> 0

\* the monitors main() enters an event for
Enabled == {"rm"} \cup (IF args.nic_given THEN {"nm"} ELSE {})
                  \cup (IF args.ps_pids # {} THEN {"pm"} ELSE {})

\* the events one pass of the loop enters (lines 241-245)
Entered(tick) ==
  { [time |-> FireTime(starttime, tick, args.delay), priority |-> Priority(m),
     action |-> m] : m \in Enabled }

\* lines 241-245: scheduler.enterabs for every enabled monitor
Schedule ==
  /\ pc = "sched"
  /\ i <= MaxTick
  /\ queue' = queue \cup Entered(i)
  /\ pc' = "run"
  /\ UNCHANGED << args, caller, clock, disk, net, procs, files, bound, rm, nm, pm,
                  loc, i, starttime, exc, notice, closed, disk_reads, net_reads,
                  ps_seen, log >>

\* the head of the scheduler queue: earliest time, then lowest priority number
NextEvent(q) ==
  CHOOSE e \in q : \A f \in q :
    \/ e.time < f.time
    \/ e.time = f.time /\ e.priority <= f.priority

\* scheduler.run: the head is not due yet, delayfunc(time - now)
Sleep ==
  /\ pc = "run"
  /\ queue # {}
  /\ NextEvent(queue).time > clock
  /\ clock' = NextEvent(queue).time
  /\ UNCHANGED << args, pc, caller, disk, net, procs, files, bound, rm, nm, pm, loc,
                  i, starttime, queue, exc, notice, closed, disk_reads, net_reads,
                  ps_seen, log >>

\* a scheduler that runs the head of the queue without looking at the clock
DueAtOnce(q, now) == q # {}

\* whether scheduler.run may take the head of the queue now
Due(q, now) == q # {} /\ NextEvent(q).time <= now

\* scheduler.run: the head is due, pop it and call its action
Dispatch ==
  /\ pc = "run"
  /\ Due(queue, clock)
  /\ LET e == NextEvent(queue)
     IN /\ queue' = queue \ {e}
        /\ pc' = CASE e.action = "rm" -> "rm_read"
                   [] e.action = "nm" -> "nm_read"
                   [] OTHER -> "pm_poll"
        /\ log' = Append(log, [ev |-> "start", mon |-> e.action, tick |-> i,
                                time |-> e.time, at |-> clock])
  /\ caller' = "sched"
  /\ UNCHANGED << args, clock, disk, net, procs, files, bound, rm, nm, pm, loc, i,
                  starttime, exc, notice, closed, disk_reads, net_reads, ps_seen >>

\* a loop that jumps over the ticks whose fire time has already passed
NextTickCatchUp(tick) ==
  IF FireTime(starttime, tick + 1, args.delay) < clock THEN tick + 2 ELSE tick + 1

\* the tick counter after scheduler.run returned (line 247)
NextTick(tick) == tick + 1

\* scheduler.run returns on an empty queue; i += 1 (line 247)
RunReturn ==
  /\ pc = "run"
  /\ queue = {}
  /\ i' = NextTick(i)
  /\ pc' = "sched"
  /\ UNCHANGED << args, caller, clock, disk, net, procs, files, bound, rm, nm, pm,
                  loc, starttime, queue, exc, notice, closed, disk_reads, net_reads,
                  ps_seen, log >>

\* the positions of main() inside the try block (lines 229-247)
TryPcs == {"rm_new", "rm_bind", "en_nic", "nm_new", "nm_prev", "nm_bind", "en_ps",
           "pm_new", "pm_bind", "loop_init", "sched", "run", "rm_read", "rm_write",
           "nm_read", "nm_write", "pm_poll", "pm_write"}

\* SIGINT: KeyboardInterrupt is raised wherever main() is inside the try block
Interrupt ==
  /\ pc \in TryPcs
  /\ caller # "direct"
  /\ exc' = "KeyboardInterrupt"
  /\ pc' = "except"
  /\ loc' = NoLoc
  /\ UNCHANGED << args, caller, clock, disk, net, procs, files, bound, rm, nm, pm, i,
                  starttime, queue, notice, closed, disk_reads, net_reads, ps_seen,
                  log >>

\* except KeyboardInterrupt: print the notice (lines 248-249)
Except ==
  /\ pc = "except"
  /\ notice' = notice + 1
  /\ exc' = "none"
  /\ pc' = "fin_rm"
  /\ UNCHANGED << args, caller, clock, disk, net, procs, files, bound, rm, nm, pm,
                  loc, i, starttime, queue, closed, disk_reads, net_reads, ps_seen,
                  log >>

\* a name of main() read in the finally block while it is unbound
Unbound ==
  /\ exc' = "UnboundLocalError"
  /\ pc' = "done"
  /\ UNCHANGED << files, closed >>

\* finally: rm.close() (line 251)
FinallyRm ==
  /\ pc = "fin_rm"
  /\ IF "rm" \in bound
     THEN /\ files' = RmClose(files)
          /\ closed' = [closed EXCEPT !["rm"] = @ + 1]
          /\ pc' = "fin_nm"
          /\ exc' = exc
     ELSE Unbound
  /\ UNCHANGED << args, caller, clock, disk, net, procs, bound, rm, nm, pm, loc, i,
                  starttime, queue, notice, disk_reads, net_reads, ps_seen, log >>

\* finally: if enable_nic_mon: nm.close() (lines 252-253)
FinallyNm ==
  /\ pc = "fin_nm"
  /\ IF "enable_nic_mon" \notin bound
     THEN Unbound
     ELSE IF ~args.nic_given
          THEN /\ pc' = "fin_pm"
               /\ UNCHANGED << files, closed, exc >>
          ELSE IF "nm" \in bound
               THEN /\ files' = NmClose(files)
                    /\ closed' = [closed EXCEPT !["nm"] = @ + 1]
                    /\ pc' = "fin_pm"
                    /\ exc' = exc
               ELSE Unbound
  /\ UNCHANGED << args, caller, clock, disk, net, procs, bound, rm, nm, pm, loc, i,
                  starttime, queue, notice, disk_reads, net_reads, ps_seen, log >>

\* finally: if enable_ps_mon: pm.close() (lines 254-255)
FinallyPm ==
  /\ pc = "fin_pm"
  /\ IF "enable_ps_mon" \notin bound
     THEN Unbound
     ELSE IF args.ps_pids = {}
          THEN /\ pc' = "done"
               /\ UNCHANGED << files, closed, exc >>
          ELSE IF "pm" \in bound
               THEN /\ files' = PmClose(files)
                    /\ closed' = [closed EXCEPT !["pm"] = @ + 1]
                    /\ pc' = "done"
                    /\ exc' = exc
               ELSE Unbound
  /\ UNCHANGED << args, caller, clock, disk, net, procs, bound, rm, nm, pm, loc, i,
                  starttime, queue, notice, disk_reads, net_reads, ps_seen, log >>

\* ----------------------------------------------------------- destinations
\* 'netstat.{nic}.csv'.format(nic=nic_name): the path of the file of one NIC
NicPath(nic) ==
  CASE nic = "eth0" -> "netstat.eth0.csv"
    [] nic = "eth1" -> "netstat.eth1.csv"
    [] OTHER -> "netstat.wlan9.csv"

\* the output streams that exist: one per constructed ResMonitor and
\* ProcessSetMonitor, one per NIC of the NetworkInterfaceMonitor
Streams ==
  (IF rm # NoRm THEN {"rm"} ELSE {})
  \cup Range(nm.nic_files)
  \cup (IF pm # NoPm THEN {"pm"} ELSE {})

\* where the lines of a stream go: sys.stdout, or the path given to open()
\* (lines 16, 97 and 137)
Dest(stream) ==
  CASE stream = "rm" -> IF rm.outfile = "stdout" THEN "stdout" ELSE args.outfile
    [] stream = "pm" -> IF pm.outfile = "stdout" THEN "stdout" ELSE args.ps_outfile
    [] OTHER -> NicPath(stream)

\* ------------------------------------------------------------ sink errors
\* an exception leaves the poll_stat in progress: nothing catches it in the
\* monitors, the constructors or scheduler.run, and except KeyboardInterrupt does
\* not match it, so main() goes on in its finally block
Raise(err) ==
  /\ exc' = err
  /\ pc' = "fin_rm"
  /\ loc' = NoLoc

\* ResMonitor.poll_stat, line 66: outfile.write raises OSError
RmWriteFails ==
  /\ pc = "rm_write"
  /\ Raise("OSError")
  /\ UNCHANGED << args, caller, clock, disk, net, procs, files, bound, rm, nm, pm, i,
                  starttime, queue, notice, closed, disk_reads, net_reads, ps_seen,
                  log >>

\* NetworkInterfaceMonitor.poll_stat, line 109: f.write raises OSError for the
\* k-th NIC, after the rows of the NICs before it were written
NmWriteFails ==
  /\ pc = "nm_write"
  /\ loc.k <= Len(nm.nic_files)
  /\ Raise("OSError")
  /\ UNCHANGED << args, caller, clock, disk, net, procs, files, bound, rm, nm, pm, i,
                  starttime, queue, notice, closed, disk_reads, net_reads, ps_seen,
                  log >>

\* NetworkInterfaceMonitor.poll_stat, line 107: net_stat[nic] raises KeyError
\* when the reading does not hold the k-th NIC
NmNicMissing ==
  /\ pc = "nm_write"
  /\ loc.k <= Len(nm.nic_files)
  /\ nm.nic_files[loc.k] \notin DOMAIN loc.net_stat
  /\ Raise("KeyError")
  /\ UNCHANGED << args, caller, clock, disk, net, procs, files, bound, rm, nm, pm, i,
                  starttime, queue, notice, closed, disk_reads, net_reads, ps_seen,
                  log >>

\* ProcessSetMonitor.poll_stat, line 197: outfile.write raises OSError
PmWriteFails ==
  /\ pc = "pm_write"
  /\ caller # "direct"
  /\ Raise("OSError")
  /\ UNCHANGED << args, caller, clock, disk, net, procs, files, bound, rm, nm, pm, i,
                  starttime, queue, notice, closed, disk_reads, net_reads, ps_seen,
                  log >>

\* ------------------------------------------------------ the environment
\* the positions of main() inside a poll_stat
PollPcs == {"rm_read", "rm_write", "nm_read", "nm_write", "pm_poll", "pm_write"}

\* time passes while a poll_stat is between taking its readings and writing its
\* row (the other statements take no time)
Tick ==
  /\ pc \in {"rm_write", "nm_write", "pm_write"}
  /\ clock < Epoch + MaxClock
  /\ clock' = clock + 1
  /\ UNCHANGED << args, pc, caller, disk, net, procs, files, bound, rm, nm, pm, loc,
                  i, starttime, queue, exc, notice, closed, disk_reads, net_reads,
                  ps_seen, log >>

\* the disk counters are cumulative: they move forward
DiskIO ==
  /\ pc \in TryPcs
  /\ \E d \in DiskSnaps :
       /\ d.read_count > disk.read_count
       /\ disk' = d
  /\ UNCHANGED << args, pc, caller, clock, net, procs, files, bound, rm, nm, pm, loc,
                  i, starttime, queue, exc, notice, closed, disk_reads, net_reads,
                  ps_seen, log >>

\* the counters of one interface are cumulative: they move forward
NetIO ==
  /\ pc \in TryPcs
  /\ \E n \in IfStats : \E v \in NetSnaps :
       /\ v.bytes_sent > net[n].bytes_sent
       /\ net' = [net EXCEPT ![n] = v]
  /\ UNCHANGED << args, pc, caller, clock, disk, procs, files, bound, rm, nm, pm, loc,
                  i, starttime, queue, exc, notice, closed, disk_reads, net_reads,
                  ps_seen, log >>

\* scheduler.run is waiting for the next fire time
Waiting == pc = "run" /\ queue # {} /\ NextEvent(queue).time > clock

\* while the scheduler waits, the disk counters move: forward, or back (a disk
\* is removed from the sum, or the counters restart)
DiskMoves ==
  /\ Waiting
  /\ \E d \in DiskSnaps \ {disk} : disk' = d
  /\ UNCHANGED << args, pc, caller, clock, net, procs, files, bound, rm, nm, pm, loc,
                  i, starttime, queue, exc, notice, closed, disk_reads, net_reads,
                  ps_seen, log >>

\* while the scheduler waits, the counters of a monitored interface move:
\* forward, or back (the interface is brought down and up again)
NetMoves ==
  /\ Waiting
  /\ \E n \in Range(nm.nic_files) \cap DOMAIN net : \E v \in NetSnaps \ {net[n]} :
       net' = [net EXCEPT ![n] = v]
  /\ UNCHANGED << args, pc, caller, clock, disk, procs, files, bound, rm, nm, pm, loc,
                  i, starttime, queue, exc, notice, closed, disk_reads, net_reads,
                  ps_seen, log >>

\* while the scheduler waits, a monitored interface goes away: the readings of
\* net_io_counters(pernic=True) no longer hold it
NicGone ==
  /\ Waiting
  /\ \E x \in Range(nm.nic_files) \cap DOMAIN net :
       net' = [n \in (DOMAIN net) \ {x} |-> net[n]]
  /\ UNCHANGED << args, pc, caller, clock, disk, procs, files, bound, rm, nm, pm, loc,
                  i, starttime, queue, exc, notice, closed, disk_reads, net_reads,
                  ps_seen, log >>

\* between two polls a process starts, exits, or starts or stops refusing to be
\* read (a change during a poll is what the entry "bad" stands for)
ProcChange ==
  /\ pc = "h_idle"
  /\ \E p \in Pids : \E st \in ProcStates \ {procs[p]} :
       procs' = [procs EXCEPT ![p] = st]
  /\ UNCHANGED << args, pc, caller, clock, disk, net, files, bound, rm, nm, pm, loc,
                  i, starttime, queue, exc, notice, closed, disk_reads, net_reads,
                  ps_seen, log >>

\* ------------------------------------- a ProcessSetMonitor used directly
\* ProcessSetMonitor(keywords, pids, outfile_name) called by a client
DirectInit ==
  /\ pc = "h_new"
  /\ PmConstruct
  /\ caller' = "direct"
  /\ UNCHANGED << args, clock, disk, net, procs, bound, rm, nm, loc, i, starttime,
                  queue, exc, notice, closed, disk_reads, net_reads, ps_seen, log >>

\* the client calls poll_stat again
DirectPoll ==
  /\ pc = "h_idle"
  /\ Len(DataRows(files[pm.outfile])) <= MaxPsPolls
  /\ pc' = "pm_poll"
  /\ UNCHANGED << args, caller, clock, disk, net, procs, files, bound, rm, nm, pm,
                  loc, i, starttime, queue, exc, notice, closed, disk_reads,
                  net_reads, ps_seen, log >>

\* ------------------------------------------------------- specifications
NicChoices ==
  { [given |-> FALSE, names |-> << >>],
    [given |-> TRUE, names |-> << >>],
    [given |-> TRUE, names |-> << "eth0" >>],
    [given |-> TRUE, names |-> << "wlan9" >>],
    [given |-> TRUE, names |-> << "eth0", "wlan9" >>],
    [given |-> TRUE, names |-> << "eth1", "eth0" >>] }

Start ==
  /\ caller = "init"
  /\ clock = Epoch
  /\ disk = CHOOSE d \in DiskSnaps : \A e \in DiskSnaps : d.read_count <= e.read_count
  /\ net = [n \in IfStats |->
              CHOOSE v \in NetSnaps :
                \A w \in NetSnaps : v.bytes_sent <= w.bytes_sent]
  /\ files = [h \in Handles |-> NoFile]
  /\ bound = {}
  /\ rm = NoRm
  /\ nm = NoNm
  /\ pm = NoPm
  /\ loc = NoLoc
  /\ i = 0
  /\ starttime = 0
  /\ queue = {}
  /\ exc = "none"
  /\ notice = 0
  /\ closed = [m \in {"rm", "nm", "pm"} |-> 0]
  /\ disk_reads = << >>
  /\ net_reads = [n \in NicNames |-> << >>]
  /\ ps_seen = [n |-> 0, listed |-> {}, ok |-> {}]
  /\ log = << >>

\* the program started with one of the given command lines
StartedWith(outfiles, psoutfiles, nics, pidsets, delays, tables) ==
  /\ Start
  /\ pc = "rm_new"
  /\ \E o \in outfiles, po \in psoutfiles, n \in nics, ps \in pidsets, d \in delays :
       args = [outfile |-> o, ps_outfile |-> po, nic_given |-> n.given,
               nic |-> n.names, ps_pids |-> ps, keywords |-> << >>, delay |-> d]
  /\ procs \in tables

\* the same with --ps-outfile left at its default (line 219)
Started(outfiles, nics, pidsets, delays, tables) ==
  StartedWith(outfiles, {"resprofile.csv"}, nics, pidsets, delays, tables)

AllOk == [p \in Pids |-> "ok"]

\* the program as started from the command line
Init ==
  Started({"None", "res.csv"}, NicChoices, {{}, {1, 2}}, {1, 2},
          {AllOk, [AllOk EXCEPT ![2] = "bad"]})

Startup ==
  \/ RmInit \/ RmBind \/ EnableNic \/ NmInit \/ NmPrev \/ NmStart \/ NmSkip \/ NmBind
  \/ EnablePs \/ PmInit \/ PmSkip \/ PmBind \/ LoopInit

Polls ==
  \/ RmPollRead \/ RmPollWrite \/ NmPollRead \/ NmPollWrite \/ NmPollCommit
  \/ PmPollBegin \/ PmPollWrite

Loop == Schedule \/ Sleep \/ Dispatch \/ RunReturn

Exit == Interrupt \/ Except \/ FinallyRm \/ FinallyNm \/ FinallyPm

\* main() alone: the stat source stands still
Main == Startup \/ Polls \/ Loop \/ Exit

\* main() while the disk counters move
Next == Main \/ DiskIO

Spec == Init /\ [][Next]_vars

\* main() with two interfaces while their counters move
InitNet ==
  Started({"res.csv"},
          {[given |-> FALSE, names |-> << >>],
           [given |-> TRUE, names |-> << "eth1", "eth0" >>]},
          {{}, {1, 2}}, {1}, {AllOk})

NextNet == Main \/ NetIO

SpecNet == InitNet /\ [][NextNet]_vars

\* main() while polls take time, for as long as no interrupt arrives (the steps
\* of Exit leave the queue, the tick counter, starttime and the log as they are)
InitTime ==
  Started({"None"},
          {[given |-> FALSE, names |-> << >>], [given |-> TRUE, names |-> << "eth0" >>]},
          {{}, {1, 2}}, {1, 2}, {AllOk})

NextTime == Startup \/ Polls \/ Loop \/ Tick

SpecTime == InitTime /\ [][NextTime]_vars

\* main() while the disk and interface counters move forward and fall back, for
\* as long as no interrupt arrives
InitCounters ==
  Started({"res.csv"},
          {[given |-> FALSE, names |-> << >>], [given |-> TRUE, names |-> << "eth0" >>]},
          {{}, {1, 2}}, {1}, {AllOk})

NextCounters == Startup \/ Polls \/ Loop \/ DiskMoves \/ NetMoves

SpecCounters == InitCounters /\ [][NextCounters]_vars

\* main() started with the output options --outfile and --ps-outfile given or
\* left at their defaults, for as long as no interrupt arrives
InitDest ==
  StartedWith({"None", "res.csv", "netstat.eth0.csv"},
              {"resprofile.csv", "res.csv", ""},
              {[given |-> FALSE, names |-> << >>],
               [given |-> TRUE, names |-> << "eth0" >>]},
              {{}, {1, 2}}, {1}, {AllOk})

NextDest == Startup \/ Polls \/ Loop

SpecDest == InitDest /\ [][NextDest]_vars

\* the finally block of main()
Finally == FinallyRm \/ FinallyNm \/ FinallyPm

\* main() while a write to a sink may fail, for as long as no interrupt arrives
InitIO ==
  Started({"None", "res.csv"},
          {[given |-> FALSE, names |-> << >>],
           [given |-> TRUE, names |-> << "eth1", "eth0" >>]},
          {{}, {1, 2}}, {1}, {AllOk, [AllOk EXCEPT ![1] = "absent", ![2] = "absent"]})

WriteFails == RmWriteFails \/ NmWriteFails \/ PmWriteFails

NextIO == Startup \/ Polls \/ Loop \/ Finally \/ WriteFails

SpecIO == InitIO /\ [][NextIO]_vars

\* main() with two interfaces whose counters move and which may go away, while
\* a write to a NIC file may fail, for as long as no interrupt arrives
InitNic ==
  Started({"res.csv"},
          {[given |-> FALSE, names |-> << >>],
           [given |-> TRUE, names |-> << "eth1", "eth0" >>]},
          {{}, {1, 2}}, {1}, {AllOk})

NextNic ==
  Startup \/ Polls \/ Loop \/ Finally \/ NmWriteFails \/ NmNicMissing
  \/ NetMoves \/ NicGone

SpecNic == InitNic /\ [][NextNic]_vars

\* a ProcessSetMonitor constructed with keywords and polled by a client while
\* the process table changes
KeywordChoices ==
  { << >>, << << "a", "b" >> >>, << << "b" >>, << "a", "a" >> >> }

InitPs ==
  /\ Start
  /\ pc = "h_new"
  /\ \E kw \in KeywordChoices, ps \in {{}, {1}, {1, 2}} :
       args = [outfile |-> "None", ps_outfile |-> "resprofile.csv",
               nic_given |-> FALSE, nic |-> << >>, ps_pids |-> ps, keywords |-> kw,
               delay |-> 1]
  /\ procs = AllOk

NextPs == DirectInit \/ DirectPoll \/ PmPollBegin \/ PmPollWrite \/ ProcChange

SpecPs == InitPs /\ [][NextPs]_vars


\* ------------------------------------------------------------ properties
Last(q) == q[Len(q)]

\* the file the ResMonitor writes to, its header and its data rows
RmFile == files[rm.outfile]
RmRows == DataRows(RmFile)

\* the difference of one disk counter between readings k and k + 1 of the monitor
DiskDelta(k, field) ==
  CASE field = "read_count" -> disk_reads[k + 1].read_count - disk_reads[k].read_count
    [] field = "write_count" -> disk_reads[k + 1].write_count - disk_reads[k].write_count
    [] field = "read_time" -> disk_reads[k + 1].read_time - disk_reads[k].read_time
    [] OTHER -> disk_reads[k + 1].write_time - disk_reads[k].write_time

\* C1: the k-th row of the ResMonitor holds, under io.read, io.write, io.read.ms
\* and io.write.ms, the counter read at the k-th poll minus the counter read at
\* the poll before it (the snapshot of the constructor for the first poll).
C1_DiskDeltaFromPreviousPoll ==
  \A k \in 1..Len(RmRows) :
    /\ k + 1 <= Len(disk_reads)
    /\ Col(RmFile.lines[1], RmRows[k], "io.read") = DiskDelta(k, "read_count")
    /\ Col(RmFile.lines[1], RmRows[k], "io.write") = DiskDelta(k, "write_count")
    /\ Col(RmFile.lines[1], RmRows[k], "io.read.ms") = DiskDelta(k, "read_time")
    /\ Col(RmFile.lines[1], RmRows[k], "io.write.ms") = DiskDelta(k, "write_time")

\* C1 witness: a second poll was written whose delta against the previous poll
\* differs from its delta against the snapshot taken at construction.
C1_Witness ==
  /\ Len(RmRows) >= 2
  /\ disk_reads[2] # disk_reads[1]
  /\ disk_reads[3] # disk_reads[2]
  /\ Col(RmFile.lines[1], RmRows[2], "io.read")
       # disk_reads[3].read_count - disk_reads[1].read_count

\* the data rows of the file of one NIC
NicRows(nic) == DataRows(files[nic])

\* C2: for every monitored NIC, the k-th row of its file names that NIC and holds
\* the deltas between that NIC's own readings k and k + 1; while no poll is in
\* progress the retained snapshot of a NIC is that NIC's latest reading; and a
\* file belongs to the NIC it is named after or is never written.
C2_PerNicDeltas ==
  /\ \A nic \in Range(nm.nic_files) :
       \A k \in 1..Len(NicRows(nic)) :
         LET h == files[nic].lines[1]
             row == NicRows(nic)[k]
             cur == net_reads[nic][k + 1]
             prv == net_reads[nic][k]
         IN /\ Col(h, row, "NIC") = nic
            /\ Col(h, row, "sent.MB") = Shr20(cur.bytes_sent - prv.bytes_sent)
            /\ Col(h, row, "recv.MB") = Shr20(cur.bytes_recv - prv.bytes_recv)
            /\ Col(h, row, "sent.pkts") = cur.packets_sent - prv.packets_sent
            /\ Col(h, row, "recv.pkts") = cur.packets_recv - prv.packets_recv
            /\ Col(h, row, "err.in") = cur.errin - prv.errin
            /\ Col(h, row, "err.out") = cur.errout - prv.errout
            /\ Col(h, row, "drop.in") = cur.dropin - prv.dropin
            /\ Col(h, row, "drop.out") = cur.dropout - prv.dropout
  /\ pc \in TryPcs \ {"nm_write"} =>
       \A nic \in Range(nm.nic_files) \cap DOMAIN nm.prev_stat :
         nm.prev_stat[nic] = Last(net_reads[nic])
  /\ \A n \in NicNames \ Range(nm.nic_files) : files[n].lines = << >>

\* C2 witness: two NICs are monitored, both have a row of a scheduled poll, and
\* in that poll one NIC moved while the other stood still.
C2_Witness ==
  /\ Len(nm.nic_files) = 2
  /\ Len(NicRows("eth0")) >= 2
  /\ Len(NicRows("eth1")) >= 2
  /\ Col(files["eth0"].lines[1], NicRows("eth0")[2], "sent.pkts") > 0
  /\ Col(files["eth1"].lines[1], NicRows("eth1")[2], "sent.pkts") = 0
  /\ net_reads["eth1"][2] # net_reads["eth0"][2]


\* the entries of the log that belong to tick t
TickLog(t) == SelectSeq(log, LAMBDA e : e.tick = t)

\* the monitors the command line turns on, in the order the spec fixes for a tick
TickOrder ==
  (IF args.ps_pids # {} THEN << "pm" >> ELSE << >>)
  \o (IF args.nic_given THEN << "nm" >> ELSE << >>)
  \o << "rm" >>

\* how often the log holds the entry (ev, m, t)
Count(ev, m, t) ==
  Cardinality({ k \in 1..Len(log) :
                  log[k].ev = ev /\ log[k].mon = m /\ log[k].tick = t })

\* C3: every event, queued or already run, has the fire time starttime + tick *
\* delay, with the one starttime of the run, however late earlier polls finished
\* (start 1000, delay 5: tick 3 fires at 1015).
C3_FireTimesAnchored ==
  /\ FireTime(1000, 3, 5) = 1015
  /\ \A e \in queue : e.time = starttime + i * args.delay
  /\ \A k \in 1..Len(log) :
       log[k].ev = "start" => log[k].time = starttime + log[k].tick * args.delay

\* C3 witness: a poll of tick 1 ended after the fire time of tick 2, and a poll
\* of tick 2 then started late.
C3_Witness ==
  \E j, k \in 1..Len(log) :
    /\ log[j].ev = "end" /\ log[j].tick = 1
    /\ log[j].at > starttime + 2 * args.delay
    /\ log[k].ev = "start" /\ log[k].tick = 2
    /\ log[k].at > log[k].time

\* C4: the polls of one tick run in the order ProcessSetMonitor, NetworkInterface-
\* Monitor, ResMonitor, and every poll ends before the next one starts.
C4_FixedOrderOneAtATime ==
  /\ \A t \in 1..i :
       /\ Len(TickLog(t)) <= 2 * Len(TickOrder)
       /\ \A k \in 1..Len(TickLog(t)) :
            /\ TickLog(t)[k].mon = TickOrder[(k + 1) \div 2]
            /\ TickLog(t)[k].ev = IF k % 2 = 1 THEN "start" ELSE "end"
  /\ \A k \in 1..Len(log) :
       /\ log[k].ev = (IF k % 2 = 1 THEN "start" ELSE "end")
       /\ k % 2 = 0 => /\ log[k].mon = log[k - 1].mon
                       /\ log[k].tick = log[k - 1].tick
       /\ k > 1 => log[k - 1].at <= log[k].at
  /\ pc \in PollPcs /\ caller = "sched" => Len(log) % 2 = 1
  /\ pc \in {"sched", "run"} => Len(log) % 2 = 0

\* C4 witness: all three monitors are on and a whole tick has run.
C4_Witness ==
  /\ Len(TickOrder) = 3
  /\ Len(TickLog(1)) = 6

\* C5: every tick before the current one polled every enabled monitor exactly
\* once, the current one at most once; ticks run in increasing order; the queue
\* holds only events of the current tick that have not run; and every fire time
\* is starttime + tick * delay.
C5_NoTickSkipped ==
  /\ \A m \in Range(TickOrder) :
       /\ \A t \in 1..(i - 1) : Count("start", m, t) = 1 /\ Count("end", m, t) = 1
       /\ Count("start", m, i) <= 1 /\ Count("end", m, i) <= 1
  /\ \A k \in 1..Len(log) :
       /\ log[k].tick \in 1..i
       /\ log[k].mon \in Range(TickOrder)
       /\ k > 1 => log[k - 1].tick <= log[k].tick
       /\ log[k].ev = "start" => log[k].time = starttime + log[k].tick * args.delay
  /\ \A e \in queue :
       /\ e.time = starttime + i * args.delay
       /\ Count("start", e.action, i) = 0

\* C5 witness: with all three monitors on, a poll of tick 1 ran on until the fire
\* time of tick 3, and tick 2 was still run in full.
C5_Witness ==
  /\ Len(TickOrder) = 3
  /\ i = 3
  /\ \E k \in 1..Len(log) :
       /\ log[k].ev = "end" /\ log[k].tick = 1
       /\ log[k].at >= starttime + 3 * args.delay


\* C6: when an interrupted run has ended, every file a monitor opened has been
\* closed exactly once.
C6_InterruptClosesEverySink ==
  pc = "done" /\ notice > 0 =>
    \A h \in Handles : files[h].opened => files[h].closes = 1

\* the process names in lower case, written out
LowName(p) ==
  CASE p = 1 -> << "a", "b" >>
    [] p = 2 -> << "b" >>
    [] OTHER -> << "a", "a" >>

\* the two rules of the monitor under observation
ByPid(p) == p \in pm.pids
ByKeyword(p) == \E w \in 1..Len(pm.keywords) : Contains(LowName(p), pm.keywords[w])

\* the processes the latest poll must have counted: listed, matched, read
Counted == { p \in ps_seen.ok : ByPid(p) \/ ByKeyword(p) }

\* the matched processes the latest poll could not read
FailedMatched == { p \in ps_seen.listed \ ps_seen.ok : ByPid(p) \/ ByKeyword(p) }

\* the sum of one metric over a set of processes, each taken once
RECURSIVE SumOf(_, _)
SumOf(S, key) ==
  IF S = {} THEN 0
  ELSE LET p == CHOOSE x \in S : TRUE
       IN StatDict(ProcMetrics(p))[key] + SumOf(S \ {p}, key)

PmRows == DataRows(files["pm"])

\* the value the latest row holds for one metric
PmLast(key) == Col(files["pm"].lines[1], Last(PmRows), key)

\* the row of the latest poll has been written
PmRowWritten == ps_seen.n > 0 /\ Len(PmRows) = ps_seen.n

\* C7: in the row of a poll, a counted process, also one that satisfies both the
\* pid rule and the keyword rule, accounts for exactly one time its own io.read
\* and io.write on top of the other counted processes.
C7_CountedOnce ==
  PmRowWritten =>
    \A q \in Counted :
      /\ PmLast("io.read") - SumOf(Counted \ {q}, "io.read")
           = ProcMetrics(q).read_count
      /\ PmLast("io.write") - SumOf(Counted \ {q}, "io.write")
           = ProcMetrics(q).write_count

\* C7 witness: a process matched by its pid and by a keyword was read and its row
\* written, next to another counted process.
C7_Witness ==
  /\ PmRowWritten
  /\ \E q \in Counted : ByPid(q) /\ ByKeyword(q)
  /\ Cardinality(Counted) >= 2

\* C8: when a matched process could not be read, no exception leaves the poll,
\* the poll writes its one row, and every metric of the row is the sum over the
\* matched processes that could be read: nothing of the failed one is in it.
C8_FailedReadAddsNothing ==
  /\ exc = "none"
  /\ pc \notin {"except", "fin_rm", "fin_nm", "fin_pm", "done"}
  /\ Len(PmRows) = IF pc = "pm_write" THEN ps_seen.n - 1 ELSE ps_seen.n
  /\ PmRowWritten /\ FailedMatched # {} =>
       \A key \in Range(SortedKeys) : PmLast(key) = SumOf(Counted, key)

\* C8 witness: a row was written by a poll in which one matched process failed
\* and another was read.
C8_Witness ==
  /\ PmRowWritten
  /\ FailedMatched # {}
  /\ Counted # {}

Wanted == Range(args.nic) \cap IfStats

\* C10: once the NetworkInterfaceMonitor has passed its validation it monitors
\* exactly the requested names that exist, no other name ever gets a file, and
\* when no requested name exists the constructor raises ValueError: the monitor is
\* never bound, no poll is taken and the loop is never entered.
C10_OnlyExistingNicsMonitored ==
  /\ \A n \in NicNames : files[n].opened => n \in Wanted
  /\ pc \in {"nm_prev", "nm_read", "nm_write", "nm_bind"} \/ "nm" \in bound =>
       /\ args.nic_given => Range(nm.nic_files) = Wanted /\ Wanted # {}
       /\ \A n \in Wanted : files[n].opened
  /\ args.nic_given /\ Wanted = {} =>
       /\ "nm" \notin bound
       /\ pc \notin {"nm_prev", "nm_read", "nm_write", "nm_bind", "en_ps", "pm_new",
                     "pm_poll", "pm_write", "pm_bind", "loop_init", "sched", "run",
                     "rm_read", "rm_write"}
       /\ i = 0 /\ queue = {} /\ log = << >>
       /\ \A h \in Handles : DataRows(files[h]) = << >>
       /\ pc = "fin_rm" /\ notice = 0 => exc = "ValueError"

\* C10 witness: only a name that does not exist was requested, and the
\* constructor has raised ValueError without opening a file for it.
C10_Witness ==
  /\ args.nic = << "wlan9" >>
  /\ pc = "fin_rm"
  /\ exc = "ValueError"
  /\ ~files["wlan9"].opened

\* the monitors whose constructor has opened a sink
Opened ==
  (IF rm # NoRm THEN {"rm"} ELSE {})
  \cup (IF \E h \in NicNames : files[h].opened THEN {"nm"} ELSE {})
  \cup (IF pm # NoPm THEN {"pm"} ELSE {})

\* C11: a run that was interrupted, at whatever point, ends with the notice
\* printed once, no exception left to end the program with an error status, and
\* every monitor whose constructor opened a sink closed once.
C11_InterruptExitsCleanly ==
  pc = "done" /\ notice > 0 =>
    /\ notice = 1
    /\ exc = "none"
    /\ \A m \in Opened : closed[m] = 1

\* main() has left its try block (in SpecIO: because a write to a sink failed)
LeftTry == pc \in {"fin_rm", "fin_nm", "fin_pm", "done"}

\* C12: when a write of a poll has failed, scheduled or inside a constructor, no
\* poll is in progress or queued to run any more, the failure is what the run
\* ends with, and at the end every file that was opened has been closed once.
C12_WriteFailureClosesSinks ==
  /\ exc = "OSError" => LeftTry
  /\ LeftTry /\ pc # "done" => exc = "OSError"
  /\ pc = "done" =>
       /\ exc = "OSError"
       /\ \A h \in Handles : files[h].opened => files[h].closes = 1

\* a failed write of a scheduled poll: every sink is closed and OSError ends the run
C12_ScheduledCase ==
  /\ pc = "done" /\ exc = "OSError" /\ i >= 1
  /\ files["pm"].closes = 1 /\ files["eth0"].closes = 1 /\ files["rm"].closes = 1

\* mb is the floor of bytes / 1048576
IsFloorMB(mb, bytes) == mb * 1048576 <= bytes /\ bytes < (mb + 1) * 1048576

\* C13: io.read.MB and io.write.MB of every ResMonitor row, and sent.MB and
\* recv.MB of every row of every NIC, are the floor of (current bytes - previous
\* bytes) / 1048576 for the two readings the row was computed from; 1048576 ->
\* 3145728 gives 2 and 1048576 -> 2097152 gives 1.
C13_MBIsFloorOfByteDelta ==
  /\ MBDelta(3145728, 1048576) = 2
  /\ MBDelta(2097152, 1048576) = 1
  /\ \A k \in 1..Len(RmRows) :
       /\ IsFloorMB(Col(RmFile.lines[1], RmRows[k], "io.read.MB"),
                    disk_reads[k + 1].read_bytes - disk_reads[k].read_bytes)
       /\ IsFloorMB(Col(RmFile.lines[1], RmRows[k], "io.write.MB"),
                    disk_reads[k + 1].write_bytes - disk_reads[k].write_bytes)
  /\ \A nic \in Range(nm.nic_files) :
       \A k \in 1..Len(NicRows(nic)) :
         /\ IsFloorMB(Col(files[nic].lines[1], NicRows(nic)[k], "sent.MB"),
                      net_reads[nic][k + 1].bytes_sent - net_reads[nic][k].bytes_sent)
         /\ IsFloorMB(Col(files[nic].lines[1], NicRows(nic)[k], "recv.MB"),
                      net_reads[nic][k + 1].bytes_recv - net_reads[nic][k].bytes_recv)

\* C13 witness: the disk went 524288 -> 1048576 -> 3145728 bytes read (rows 0
\* and 2, where the MB values of the snapshots differ by 1 and 2), and eth0 went
\* 1048576 -> 2097152 bytes sent (row 1).
C13_Witness ==
  /\ Len(RmRows) >= 2
  /\ disk_reads[1].read_bytes = 524288
  /\ disk_reads[2].read_bytes = 1048576
  /\ disk_reads[3].read_bytes = 3145728
  /\ Col(RmFile.lines[1], RmRows[1], "io.read.MB") = 0
  /\ Col(RmFile.lines[1], RmRows[2], "io.read.MB") = 2
  /\ \E k \in 1..Len(NicRows("eth0")) :
       /\ net_reads["eth0"][k].bytes_sent = 1048576
       /\ net_reads["eth0"][k + 1].bytes_sent = 2097152
       /\ Col(files["eth0"].lines[1], NicRows("eth0")[k], "sent.MB") = 1

\* the number of comma-separated fields of a line
NFields(l) == Len(l.fields)

\* C14: in every stream, every data row has as many fields as the header of the
\* stream: 19 + ncores in the ResMonitor's, 11 in every NIC's, 9 in the
\* ProcessSetMonitor's, also for a poll that matched no process.
C14_RowsMatchHeader ==
  /\ \A h \in Handles :
       \A k \in 2..Len(files[h].lines) :
         /\ files[h].lines[1].kind = "header"
         /\ NFields(files[h].lines[k]) = NFields(files[h].lines[1])
  /\ \A k \in 1..Len(RmFile.lines) : NFields(RmFile.lines[k]) = 19 + rm.ncores
  /\ \A nic \in NicNames :
       \A k \in 1..Len(files[nic].lines) : NFields(files[nic].lines[k]) = 11
  /\ \A k \in 1..Len(files["pm"].lines) : NFields(files["pm"].lines[k]) = 9

\* C14 witness: all three monitors have written rows, and the latest poll of the
\* ProcessSetMonitor found none of its pids listed.
C14_Witness ==
  /\ Len(RmRows) >= 1
  /\ Len(NicRows("eth0")) >= 2
  /\ Len(PmRows) >= 2
  /\ ps_seen.n = Len(PmRows)
  /\ ps_seen.listed \cap pm.pids = {}

\* the delta columns of the two kinds of stream
RmDeltaCols == {"io.read", "io.write", "io.read.MB", "io.write.MB", "io.read.ms",
                "io.write.ms"}
NmDeltaCols == {"sent.MB", "recv.MB", "sent.pkts", "recv.pkts", "err.in", "err.out",
                "drop.in", "drop.out"}

\* C15: no row reports a delta below zero, unless the row carries something
\* beyond the documented columns that marks it (a counter that fell back between
\* two polls is reported as 0 or is flagged).
C15_NegativeDeltaNotSilent ==
  /\ \A k \in 1..Len(RmRows) : \A c \in RmDeltaCols :
       Col(RmFile.lines[1], RmRows[k], c) < 0 => NFields(RmRows[k]) > 19 + rm.ncores
  /\ \A nic \in Range(nm.nic_files) :
       \A k \in 1..Len(NicRows(nic)) : \A c \in NmDeltaCols :
         Col(files[nic].lines[1], NicRows(nic)[k], c) < 0
           => NFields(NicRows(nic)[k]) > 11

\* C16: no two output streams have the same destination: every sink is written
\* by one monitor only.
C16_SinksNotShared ==
  \A s, t \in Streams : s # t => Dest(s) # Dest(t)

\* C17: a scheduled poll of tick t never starts before starttime + t * delay;
\* the scheduler has waited until exactly that time when the poll before it (if
\* any) ended earlier, and when the fire time had already passed at the end of
\* the poll before it, the poll starts at once, with no wait in between.
C17_NoPollBeforeFireTime ==
  /\ \A k \in 1..Len(log) :
       log[k].ev = "start" =>
         /\ log[k].at >= starttime + log[k].tick * args.delay
         /\ k = 1 => log[k].at = log[k].time
         /\ k > 1 /\ log[k].time > log[k - 1].at => log[k].at = log[k].time
         /\ k > 1 /\ log[k].time <= log[k - 1].at => log[k].at = log[k - 1].at
  /\ pc \in PollPcs /\ caller = "sched" => clock >= starttime + i * args.delay

\* C17 witness: the first poll of tick 1 started exactly at its fire time after
\* a wait, and a poll of tick 2 whose fire time had passed started right when
\* the poll before it ended.
C17_Witness ==
  /\ Len(log) >= 3
  /\ log[1].at = starttime + args.delay
  /\ log[1].at > starttime
  /\ \E k \in 2..Len(log) :
       /\ log[k].ev = "start" /\ log[k].tick = 2
       /\ log[k].at > log[k].time
       /\ log[k].at = log[k - 1].at

\* the monitored NICs
Monitored == Range(nm.nic_files)

\* one step of a NetworkInterfaceMonitor poll, seen from its retained snapshots
PrevStatStep ==
  /\ pc = "nm_write" /\ loc.k <= Len(nm.nic_files) =>
       nm'.prev_stat = nm.prev_stat
  /\ pc = "nm_write" /\ loc.k > Len(nm.nic_files) /\ pc' # "nm_write" =>
       /\ nm'.prev_stat = loc.net_stat
       /\ \A nic \in Monitored :
            /\ nm'.prev_stat[nic] = Last(net_reads[nic])
            /\ Len(NicRows(nic)) = Len(net_reads[nic]) - 1
  /\ pc \notin {"nm_new", "nm_prev", "nm_write"} => nm'.prev_stat = nm.prev_stat
  /\ pc = "nm_write" /\ pc' = "nm_write" => loc'.net_stat = loc.net_stat

\* C18: while a poll writes its rows, and when it fails part-way (a write
\* fails, or a monitored NIC is missing from the reading), the retained
\* snapshots stay as they were; they are replaced in one step, by the one
\* reading the poll took and for all NICs together, only after the row of every
\* NIC has been written; and nothing outside a poll changes them.
C18_PrevStatReplacedAtOnce == [][PrevStatStep]_vars

\* C18 witness: a scheduled poll wrote the row of eth1, whose counters had
\* moved, and then failed because eth0 was missing from the reading: the
\* retained snapshot of eth1 is still the one of the poll before.
C18_Witness ==
  /\ pc = "fin_rm"
  /\ exc = "KeyError"
  /\ nm.nic_files = << "eth1", "eth0" >>
  /\ Len(net_reads["eth1"]) >= 3
  /\ Len(NicRows("eth1")) = Len(net_reads["eth1"]) - 1
  /\ Len(NicRows("eth0")) < Len(NicRows("eth1"))
  /\ nm.prev_stat["eth1"] # Last(net_reads["eth1"])
  /\ nm.prev_stat["eth1"] = net_reads["eth1"][Len(net_reads["eth1"]) - 1]
  /\ nm.prev_stat["eth0"] = Last(net_reads["eth0"])

\* C19: in every file the first line, and no other, is the header of its
\* stream; the ResMonitor has no data row when its constructor returns, every
\* NIC file and the ProcessSetMonitor's file have exactly one when theirs
\* returns; and when k ticks have completed the ResMonitor's stream holds k data
\* rows, every NIC file and the ProcessSetMonitor's file k + 1.
C19_HeaderOnceRowsPerTick ==
  /\ \A h \in Handles :
       \A k \in 1..Len(files[h].lines) : (files[h].lines[k].kind = "header") <=> (k = 1)
  /\ rm # NoRm => RmFile.lines[1] = RmHeader(rm.ncores)
  /\ \A nic \in Monitored : files[nic].lines[1] = NmHeader
  /\ pm # NoPm => files["pm"].lines[1] = PmHeader
  /\ pc = "rm_bind" => Len(RmRows) = 0
  /\ pc = "nm_bind" => \A nic \in Monitored : Len(NicRows(nic)) = 1
  /\ pc = "pm_bind" => Len(PmRows) = 1
  /\ pc = "sched" =>
       /\ Len(RmRows) = i - 1
       /\ \A nic \in Monitored : Len(NicRows(nic)) = i
       /\ pm # NoPm => Len(PmRows) = i
  /\ pc = "run" /\ queue = {} =>
       /\ Len(RmRows) = i
       /\ \A nic \in Monitored : Len(NicRows(nic)) = i + 1
       /\ pm # NoPm => Len(PmRows) = i + 1

\* C19 witness: with all three monitors on, two ticks have completed: two rows
\* in the ResMonitor's stream, three in a NIC file and in the ProcessSetMonitor's.
C19_Witness ==
  /\ pc = "run" /\ queue = {} /\ i = 2
  /\ Len(RmRows) = 2
  /\ Len(NicRows("eth0")) = 3
  /\ Len(NicRows("eth1")) = 3
  /\ Len(PmRows) = 3

====
